---- MODULE Spec2Model ----
(***************************************************************************)
(* A model of agate's immutable Table (src/agate/table/__init__.py):       *)
(* the validated constructor, the fork constructor and the transformation  *)
(* operators rename, select, exclude, where, find, order_by, limit and     *)
(* distinct.                                                               *)
(*                                                                         *)
(* Values.  A cell is a Decimal number, written as an integer 1..MaxVal,   *)
(* or Python's None.  Raw input may also hold the empty string, which the  *)
(* data types cast to None.  Column and row names are strings.             *)
(***************************************************************************)
EXTENDS Integers, Sequences, FiniteSets, TLC

VARIABLES self, result, call, chain

vars == <<self, result, call, chain>>

(* ------------------------------ bounds -------------------------------- *)
MaxRows == 3
MaxCols == 2
MaxVal == 1
MaxNames == 3
MaxChain == 1
MaxRawRows == 2

(* ------------------------------ values -------------------------------- *)
None == -9
EmptyString == -8

Numbers == 1..MaxVal
CellValues == Numbers \cup {None}
RawValues == Numbers \cup {None, EmptyString}

PyVersions == {2, 3}

SeqsUpTo(S, n) == UNION {[1..k -> S] : k \in 0..n}

Range(s) == {s[i] : i \in 1..Len(s)}

Min(a, b) == IF a < b THEN a ELSE b
Max(a, b) == IF a > b THEN a ELSE b

(* An optional argument: Python's None, or a value.                       *)
Absent == [is_none |-> TRUE, kind |-> "none", v |-> <<>>]
Given(v) == [is_none |-> FALSE, kind |-> "sequence", v |-> v]

(* The other forms of the row_names argument: the name of a column, or a  *)
(* function of a Row.                                                     *)
ByColumn(name) == [is_none |-> FALSE, kind |-> "name", v |-> <<name>>]
ByFunction(f) == [is_none |-> FALSE, kind |-> "function", v |-> <<f>>]

(* ------------------------- external capabilities ---------------------- *)
Letters == <<"A", "B", "C", "D", "E", "F", "G">>

(* utils.letter_name(i), i counted from 0.                                *)
letter_name(i) == Letters[i + 1]

(* DataType.cast: null strings and None become None, a number stays.      *)
cast(data_type, d) == IF d \in {None, EmptyString} THEN None ELSE d

(* TypeTester.run(rows, column_names): one data type per column name.     *)
TypeTesterRun(rows, column_names) == [i \in 1..Len(column_names) |-> "Number"]

(* ------------------------------ results ------------------------------- *)
NoTable == [kind |-> "none"]
NoCall == [op |-> "none"]

ValueError(what, row) == [kind |-> "error", error |-> "ValueError", what |-> what, row |-> row]
KeyError(name) == [kind |-> "error", error |-> "KeyError", what |-> name, row |-> None]
TypeError(what) == [kind |-> "error", error |-> "TypeError", what |-> what, row |-> None]

IsTable(r) == r.kind = "table"
IsError(r) == r.kind = "error"

(* -------------------------- Table.__init__ ---------------------------- *)

(* The loop of lines 87-105: names are resolved left to right against the *)
(* names resolved so far.                                                 *)
(* A variant that tries the suffix _2 once and does not look again.       *)
SuffixedOnce(new_column_name, final_column_names, duplicates) ==
    IF new_column_name \in Range(final_column_names)
    THEN new_column_name \o "_" \o ToString(2)
    ELSE new_column_name

RECURSIVE Suffixed(_, _, _)
Suffixed(new_column_name, final_column_names, duplicates) ==
    LET final_column_name == IF duplicates = 0 THEN new_column_name
                             ELSE new_column_name \o "_" \o ToString(duplicates + 1)
    IN IF final_column_name \in Range(final_column_names)
       THEN Suffixed(new_column_name, final_column_names, duplicates + 1)
       ELSE final_column_name

RECURSIVE ValidateColumnNames(_, _, _)
ValidateColumnNames(column_names, i, final_column_names) ==
    IF i > Len(column_names) THEN final_column_names
    ELSE LET column_name == column_names[i]
             new_column_name == IF column_name = "" THEN letter_name(i - 1) ELSE column_name
         IN ValidateColumnNames(column_names, i + 1,
                Append(final_column_names, Suffixed(new_column_name, final_column_names, 0)))

(* Lines 84-112.  A None entry of column_names is written "".             *)
ResolveColumnNames(rows, column_names) ==
    IF ~column_names.is_none /\ Len(column_names.v) > 0
    THEN ValidateColumnNames(column_names.v, 1, <<>>)
    ELSE IF Len(rows) > 0
         THEN [i \in 1..Len(rows[1]) |-> letter_name(i - 1)]
         ELSE <<>>

(* Lines 117-133.                                                         *)
ResolveColumnTypes(rows, names, column_types) ==
    IF column_types.is_none THEN TypeTesterRun(rows, names) ELSE column_types.v

(* A variant that lets every row through.                                 *)
NoLongRow(rows, len_column_names) == -1

(* Lines 142-146: the position, counted from 0, of the first row that is  *)
(* longer than the column count; -1 when there is none.                   *)
FirstLongRow(rows, len_column_names) ==
    IF \E i \in 1..Len(rows) : Len(rows[i]) > len_column_names
    THEN (CHOOSE i \in 1..Len(rows) :
            /\ Len(rows[i]) > len_column_names
            /\ \A j \in 1..(i - 1) : Len(rows[j]) <= len_column_names) - 1
    ELSE -1

(* A variant that casts the cells a row has and does not pad.             *)
CastRowUnpadded(row, column_types) ==
    [i \in 1..Min(Len(row), Len(column_types)) |-> cast(column_types[i], row[i])]

(* Lines 147-150: pad with None, then cast every cell.                    *)
CastRow(row, column_types) ==
    [i \in 1..Len(column_types) |->
        cast(column_types[i], IF i <= Len(row) THEN row[i] ELSE None)]

(* A Table: column_names, column_types, rows (the values of each Row),    *)
(* row_keys (the column keys the Row objects were built with),            *)
(* row_names (has_row_names is FALSE for None) and casts, the number of   *)
(* times a data type's cast was applied to each cell.                     *)
MkTable(column_names, column_types, rows, row_keys, has_row_names, row_names, casts) ==
    [kind |-> "table", column_names |-> column_names, column_types |-> column_types,
     rows |-> rows, row_keys |-> row_keys,
     has_row_names |-> has_row_names, row_names |-> row_names, casts |-> casts]

(* Row functions callers pass: the number of non-null cells, and the last *)
(* cell (None for a row without cells).                                   *)
RowFunction(f, row) ==
    IF f = "nonnulls" THEN Cardinality({i \in 1..Len(row) : row[i] # None})
    ELSE IF Len(row) = 0 THEN None ELSE row[Len(row)]

(* Lines 154-176: row_names is falsy (None or empty), the name of a       *)
(* column, a function of a Row, or a sequence used as it is.  Names are   *)
(* strings, Decimal numbers or None, never Python ints.                   *)
RowNamesGiven(row_names) == ~row_names.is_none /\ Len(row_names.v) > 0

ComputedRowNames(new_rows, row_keys, row_names) ==
    IF row_names.kind = "name"
    THEN [i \in 1..Len(new_rows) |-> new_rows[i][CHOOSE c \in 1..Len(row_keys) :
                                          /\ row_keys[c] = row_names.v[1]
                                          /\ \A d \in 1..(c - 1) : row_keys[d] # row_names.v[1]]]
    ELSE IF row_names.kind = "function"
    THEN [i \in 1..Len(new_rows) |-> RowFunction(row_names.v[1], new_rows[i])]
    ELSE row_names.v

(* Table.__init__ for rows of raw data (_is_fork False) or of Rows.       *)
(* row_keys and casts describe the Rows passed in; they are ignored for   *)
(* raw data, whose casts is 0.                                            *)
TableInit(rows, row_keys, casts, column_names, column_types, row_names, is_fork) ==
    LET names == ResolveColumnNames(rows, column_names)
        types == ResolveColumnTypes(rows, names, column_types)
        long == FirstLongRow(rows, Len(names))
        new_rows == IF is_fork THEN rows ELSE [i \in 1..Len(rows) |-> CastRow(rows[i], types)]
        new_keys == IF is_fork THEN row_keys ELSE names
        has_names == RowNamesGiven(row_names)
    IN IF Len(names) # Len(types) THEN ValueError("column_types", None)
       ELSE IF ~is_fork /\ long >= 0 THEN ValueError("row", long)
       ELSE IF has_names /\ row_names.kind = "name" /\ Len(new_rows) > 0
               /\ row_names.v[1] \notin Range(new_keys)
       THEN KeyError(row_names.v[1])
       ELSE MkTable(names, types, new_rows, new_keys, has_names,
                    IF has_names THEN ComputedRowNames(new_rows, new_keys, row_names) ELSE <<>>,
                    IF is_fork THEN casts ELSE casts + 1)

(* ------------------------------ Rows ---------------------------------- *)
IndexOf(seq, x) == CHOOSE i \in 1..Len(seq) : seq[i] = x /\ \A j \in 1..(i - 1) : seq[j] # x

(* row[name]: a Row is addressed through the keys it was built with.      *)
HasKey(t, name) == name \in Range(t.row_keys)
RowGet(t, row, name) == row[IndexOf(t.row_keys, name)]

(* The arguments that name a key: a column name, a sequence of column     *)
(* names, a function of a Row, or None.                                   *)
KeyName(n) == [kind |-> "name", names |-> <<n>>, f |-> ""]
KeyNames(ns) == [kind |-> "names", names |-> ns, f |-> ""]
KeyFunction(f) == [kind |-> "function", names |-> <<>>, f |-> f]
KeyNone == [kind |-> "none", names |-> <<>>, f |-> ""]

(* Row tests callers pass to where and find.                              *)
RowTest(test, row) ==
    IF test = "has_null" THEN \E i \in 1..Len(row) : row[i] = None
    ELSE \A i \in 1..Len(row) : row[i] # None

(* Key values: a scalar, a tuple, a generator object (equal only to       *)
(* itself, id tells them apart) or the NullOrder sentinel.                *)
Scalar(v) == [kind |-> "scalar", v |-> v, items |-> <<>>]
Tuple(items) == [kind |-> "tuple", v |-> 0, items |-> items]
Generator(id) == [kind |-> "generator", v |-> id, items |-> <<>>]
NullOrder == [kind |-> "NullOrder", v |-> 0, items |-> <<>>]

(* ------------------------------ _fork --------------------------------- *)
SelfRowNames(t) == IF t.has_row_names THEN Given(t.row_names) ELSE Absent

(* A variant that hands the rows over as raw data.                        *)
ForkAsRawData(t, rows, row_keys, column_names, column_types, row_names) ==
    TableInit(rows, row_keys, t.casts,
              IF column_names.is_none THEN Given(t.column_names) ELSE column_names,
              IF column_types.is_none THEN Given(t.column_types) ELSE column_types,
              IF row_names.is_none THEN SelfRowNames(t) ELSE row_names,
              FALSE)

Fork(t, rows, row_keys, column_names, column_types, row_names) ==
    TableInit(rows, row_keys, t.casts,
              IF column_names.is_none THEN Given(t.column_names) ELSE column_names,
              IF column_types.is_none THEN Given(t.column_types) ELSE column_types,
              IF row_names.is_none THEN SelfRowNames(t) ELSE row_names,
              TRUE)

(* ------------------------------ rename -------------------------------- *)
NoNames == [kind |-> "none", v |-> <<>>, to |-> <<>>]
NameList(v) == [kind |-> "list", v |-> v, to |-> <<>>]
NameDict(from, to) == [kind |-> "dict", v |-> from, to |-> to]

MapName(d, name) == IF name \in Range(d.v) THEN d.to[IndexOf(d.v, name)] ELSE name

(* Lines 281-285: a dict is turned into the full list of names.           *)
Renamed(arg, names) ==
    IF arg.kind = "dict" THEN Given([i \in 1..Len(names) |-> MapName(arg, names[i])])
    ELSE IF arg.kind = "list" THEN Given(arg.v)
    ELSE Absent

rename(t, column_names, row_names) ==
    IF row_names.kind = "dict" /\ ~t.has_row_names THEN TypeError("row_names")
    ELSE LET cn == Renamed(column_names, t.column_names)
             rn == Renamed(row_names, t.row_names)
         IN IF ~cn.is_none
            THEN TableInit(t.rows, t.row_keys, t.casts, cn, Given(t.column_types),
                           IF rn.is_none THEN SelfRowNames(t) ELSE rn, FALSE)
            ELSE Fork(t, t.rows, t.row_keys, cn, Given(t.column_types), rn)

(* --------------------------- select, exclude -------------------------- *)
SelectNames(t, key) ==
    IF \E i \in 1..Len(key) : key[i] \notin Range(t.column_names)
    THEN KeyError(key[CHOOSE i \in 1..Len(key) : key[i] \notin Range(t.column_names)])
    ELSE IF Len(t.rows) > 0 /\ \E i \in 1..Len(key) : ~HasKey(t, key[i])
    THEN KeyError(key[CHOOSE i \in 1..Len(key) : ~HasKey(t, key[i])])
    ELSE LET column_types == [i \in 1..Len(key) |-> t.column_types[IndexOf(t.column_names, key[i])]]
             new_rows == [r \in 1..Len(t.rows) |->
                            [i \in 1..Len(key) |-> RowGet(t, t.rows[r], key[i])]]
         IN Fork(t, new_rows, key, Given(key), Given(column_types), Absent)

select(t, key) == SelectNames(t, key.names)

KeepAt(s, keep) ==
    LET F[i \in 0..Len(s)] ==
            IF i = 0 THEN <<>>
            ELSE IF i \in keep THEN Append(F[i - 1], s[i]) ELSE F[i - 1]
    IN F[Len(s)]

exclude(t, key) ==
    SelectNames(t, KeepAt(t.column_names,
                          {i \in 1..Len(t.column_names) : t.column_names[i] \notin Range(key.names)}))

(* ----------------------------- where, find ---------------------------- *)
(* A variant that leaves the row names to _fork.                           *)
whereAllRowNames(t, test) ==
    LET keep == {i \in 1..Len(t.rows) : RowTest(test, t.rows[i])}
    IN Fork(t, KeepAt(t.rows, keep), t.row_keys, Absent, Absent, Absent)

where(t, test) ==
    LET keep == {i \in 1..Len(t.rows) : RowTest(test, t.rows[i])}
        rows == KeepAt(t.rows, keep)
        row_names == IF t.has_row_names THEN Given(KeepAt(t.row_names, keep)) ELSE Absent
    IN Fork(t, rows, t.row_keys, Absent, Absent, row_names)

FoundRow(row) == [kind |-> "row", row |-> row]
NotFound == [kind |-> "notfound"]

find(t, test) ==
    IF \E i \in 1..Len(t.rows) : RowTest(test, t.rows[i])
    THEN FoundRow(t.rows[CHOOSE i \in 1..Len(t.rows) :
                    /\ RowTest(test, t.rows[i])
                    /\ \A j \in 1..(i - 1) : ~RowTest(test, t.rows[j])])
    ELSE NotFound

(* ------------------------------ order_by ------------------------------ *)
(* sort_key, lines 403-416; i is the position of the row.                 *)
sort_key(t, i, key) ==
    LET row == t.rows[i]
        k == IF key.kind = "function" THEN Scalar(RowFunction(key.f, row))
             ELSE IF key.kind = "names"
                  THEN Tuple([n \in 1..Len(key.names) |-> RowGet(t, row, key.names[n])])
                  ELSE Scalar(RowGet(t, row, key.names[1]))
    IN IF k.kind = "scalar" /\ k.v = None THEN NullOrder ELSE k

(* The first position at which two tuples differ, 0 when there is none.   *)
FirstDiff(a, b) ==
    IF \E p \in 1..Len(a) : a[p] # b[p]
    THEN CHOOSE p \in 1..Len(a) : a[p] # b[p] /\ \A q \in 1..(p - 1) : a[q] = b[q]
    ELSE 0

(* x < y raises TypeError: Python 3 refuses to order None and a number.   *)
LessRaises(x, y, py) ==
    /\ py = 3
    /\ x.kind = "tuple" /\ y.kind = "tuple"
    /\ LET p == FirstDiff(x.items, y.items)
       IN p > 0 /\ (x.items[p] = None) # (y.items[p] = None)

(* x < y.  NullOrder is below every other value and equal to itself;      *)
(* Python 2 orders None below every number.                               *)
Less(x, y) ==
    IF x.kind = "NullOrder" THEN y.kind # "NullOrder"
    ELSE IF y.kind = "NullOrder" THEN FALSE
    ELSE IF x.kind = "tuple"
         THEN LET p == FirstDiff(x.items, y.items)
              IN p > 0 /\ (x.items[p] = None \/ (y.items[p] # None /\ x.items[p] < y.items[p]))
         ELSE x.v < y.v

(* sorted(enumerate(rows), key=sort_key, reverse=reverse): a stable sort  *)
(* of the row positions; an element goes before the first element it has  *)
(* to precede.                                                            *)
InsertAt(s, p, x) == SubSeq(s, 1, p - 1) \o <<x>> \o SubSeq(s, p, Len(s))

(* A variant that, in reverse, also puts a row before its equals.         *)
PrecedesUnstable(k, i, j, reverse) == IF reverse THEN ~Less(k[i], k[j]) ELSE Less(k[i], k[j])

Precedes(k, i, j, reverse) == IF reverse THEN Less(k[j], k[i]) ELSE Less(k[i], k[j])

sorted(k, reverse) ==
    LET F[i \in 0..Len(k)] ==
            IF i = 0 THEN <<>>
            ELSE LET acc == F[i - 1]
                     P == {p \in 1..Len(acc) : Precedes(k, i, acc[p], reverse)}
                 IN InsertAt(acc, IF P = {} THEN Len(acc) + 1
                                  ELSE CHOOSE p \in P : \A q \in P : p <= q, i)
    IN F[Len(k)]

KeyMissing(t, key) ==
    /\ key.kind \in {"name", "names"}
    /\ \E n \in 1..Len(key.names) : ~HasKey(t, key.names[n])

order_by(t, key, reverse, py) ==
    IF Len(t.rows) = 0 THEN Fork(t, t.rows, t.row_keys, Absent, Absent, Absent)
    ELSE IF KeyMissing(t, key)
    THEN KeyError(key.names[CHOOSE n \in 1..Len(key.names) : ~HasKey(t, key.names[n])])
    ELSE LET k == [i \in 1..Len(t.rows) |-> sort_key(t, i, key)]
         IN IF \E i, j \in 1..Len(k) : LessRaises(k[i], k[j], py)
            THEN TypeError("<")
            ELSE LET indices == sorted(k, reverse)
                     rows == [i \in 1..Len(indices) |-> t.rows[indices[i]]]
                     row_names == IF t.has_row_names
                                  THEN Given([i \in 1..Len(indices) |-> t.row_names[indices[i]]])
                                  ELSE Absent
                 IN Fork(t, rows, t.row_keys, Absent, Absent, row_names)

(* ------------------------------- limit -------------------------------- *)
(* slice(start, stop, step).indices(len) followed by range(), as the      *)
(* sequences of rows and of row names apply it; positions counted from 0. *)
SliceBound(x, len, default, low, high) ==
    IF x = None THEN default
    ELSE IF x < 0 THEN Max(x + len, low)
    ELSE Min(x, high)

SliceIndices(len, start, stop, step) ==
    LET st == IF step = None THEN 1 ELSE step
        lo == IF st > 0 THEN SliceBound(start, len, 0, 0, len)
              ELSE SliceBound(start, len, len - 1, -1, len - 1)
        hi == IF st > 0 THEN SliceBound(stop, len, len, 0, len)
              ELSE SliceBound(stop, len, -1, -1, len - 1)
        R[i \in 0..len] ==
            LET x == lo + i * st
            IN IF i < len /\ ((st > 0 /\ x < hi) \/ (st < 0 /\ x > hi))
               THEN <<x>> \o R[i + 1] ELSE <<>>
    IN R[0]

Slice(s, start, stop, step) ==
    LET ix == SliceIndices(Len(s), start, stop, step)
    IN [i \in 1..Len(ix) |-> s[ix[i] + 1]]

(* Python truth of an optional integer argument.                          *)
Truthy(x) == x # None /\ x # 0

limit(t, start_or_stop, stop, step) ==
    LET start == IF Truthy(stop) \/ Truthy(step) THEN start_or_stop ELSE None
        end == IF Truthy(stop) \/ Truthy(step) THEN stop ELSE start_or_stop
        stp == IF Truthy(stop) \/ Truthy(step) THEN step ELSE None
    IN IF stp = 0 THEN ValueError("slice step cannot be zero", None)
       ELSE Fork(t, Slice(t.rows, start, end, stp), t.row_keys, Absent, Absent,
                 IF t.has_row_names THEN Given(Slice(t.row_names, start, end, stp)) ELSE Absent)

(* ------------------------------ distinct ------------------------------ *)
(* The key of lines 485-492: a sequence of names gives a generator        *)
(* object, which is never evaluated.                                      *)
distinct_key(t, i, key) ==
    LET row == t.rows[i]
    IN IF key.kind = "function" THEN Scalar(RowFunction(key.f, row))
       ELSE IF key.kind = "names" THEN Generator(i)
       ELSE IF key.kind = "none" THEN Tuple(row)
       ELSE Scalar(RowGet(t, row, key.names[1]))

(* The positions of the rows the loop of lines 484-499 keeps.             *)
DistinctKept(t, key) ==
    LET F[i \in 0..Len(t.rows)] ==
            IF i = 0 THEN [uniques |-> {}, kept |-> <<>>]
            ELSE LET k == distinct_key(t, i, key)
                     acc == F[i - 1]
                 IN IF k \notin acc.uniques
                    THEN [uniques |-> acc.uniques \cup {k}, kept |-> Append(acc.kept, i)]
                    ELSE acc
    IN F[Len(t.rows)].kept

distinct(t, key) ==
    IF key.kind = "name" /\ Len(t.rows) > 0 /\ ~HasKey(t, key.names[1])
    THEN KeyError(key.names[1])
    ELSE LET kept == DistinctKept(t, key)
         IN Fork(t, [i \in 1..Len(kept) |-> t.rows[kept[i]]], t.row_keys, Absent, Absent,
                 IF t.has_row_names THEN Given([i \in 1..Len(kept) |-> t.row_names[kept[i]]])
                 ELSE Absent)

(* ------------------------------ inputs -------------------------------- *)
ColumnPool == <<"a", "b", "c", "d">>
TypePool == <<"Number", "Text", "Number", "Text", "Number">>
RowNamePool == <<"r1", "r2", "r3", "r4", "r5">>

Prefix(s, n) == SubSeq(s, 1, n)

(* Well-formed data: names and types of the same width, rows no longer    *)
(* than that (shorter ones are padded), row names absent or one per row.  *)
DataInputsOfWidth(n) ==
    {[rows |-> rows, column_names |-> Given(Prefix(ColumnPool, n)),
      column_types |-> Given(Prefix(TypePool, n)),
      row_names |-> IF named THEN Given(Prefix(RowNamePool, Len(rows))) ELSE Absent] :
        rows \in SeqsUpTo(SeqsUpTo(Numbers \cup {EmptyString}, n), MaxRows),
        named \in BOOLEAN}

DataInputs == UNION {DataInputsOfWidth(n) : n \in 0..MaxCols}

(* Inputs of any shape: column names with None entries (written ""),      *)
(* repeated names and names that look suffixed; column types absent or    *)
(* of any length; rows of any length, also longer than the columns; row   *)
(* names in each of their forms.                                          *)
NamePool == {"", "a", "a_2", "B"}
RawPool == <<1, EmptyString, None, 1, 1, 1, 1>>

RowNamesForm(form, n) ==
    IF form = "sequence" THEN Given(Prefix(RowNamePool, n))
    ELSE IF form = "name" THEN ByColumn("a")
    ELSE IF form = "function" THEN ByFunction("nonnulls")
    ELSE Absent

ShapeInputs ==
    {[rows |-> [i \in 1..Len(lens) |-> Prefix(RawPool, lens[i])],
      column_names |-> cn, column_types |-> ct, row_names |-> RowNamesForm(form, Len(lens))] :
        lens \in SeqsUpTo(0..(MaxNames + 1), MaxRawRows),
        cn \in {Absent} \cup {Given(ns) : ns \in SeqsUpTo(NamePool, MaxNames)},
        ct \in {Absent} \cup {Given(Prefix(TypePool, k)) : k \in 0..MaxNames},
        form \in {"none", "sequence", "name", "function"}}

(* Arguments callers pass to the operators of a table.                    *)
ArgNames(t) == Range(t.column_names) \cup Range(Prefix(ColumnPool, MaxCols))

NameKeys(t) == {KeyName(n) : n \in ArgNames(t)} \cup {KeyNames(ns) : ns \in SeqsUpTo(ArgNames(t), MaxCols)}

KeyFunctions == {KeyFunction("nonnulls"), KeyFunction("last")}

Tests == {"has_null", "no_null"}

StartArgs == {None, -1, 0, 1, 2}
StopArgs == {None, -1, 0, 2}
StepArgs == {None, -1, 2}

NewRowNames == <<"x", "y", "z", "w", "v">>

RenameArgs(t) ==
    {[column_names |-> cn, row_names |-> NoNames] :
        cn \in {NameList(ns) : ns \in SeqsUpTo(Range(Prefix(ColumnPool, MaxCols)), Len(t.column_names))}
               \cup {NameDict(<<"a">>, <<"b">>), NameDict(<<"a", "b">>, <<"b", "a">>), NoNames}}
    \cup {[column_names |-> cn, row_names |-> rn] :
        cn \in {NoNames, NameDict(<<"a">>, <<"b">>)},
        rn \in {NameList(Prefix(NewRowNames, Len(t.rows))), NameDict(<<"r1">>, <<"x">>)}}

Init ==
    /\ self = NoTable
    /\ result = NoTable
    /\ call = NoCall
    /\ chain = 0

(* A table is there and no call is pending.                               *)
Idle == IsTable(self) /\ result.kind = "none"

(* Table(rows, column_names, column_types, row_names)                     *)
Construct(inputs) ==
    /\ self.kind = "none"
    /\ result.kind = "none"
    /\ \E in \in inputs :
        LET r == TableInit(in.rows, <<>>, 0, in.column_names, in.column_types, in.row_names, FALSE)
        IN /\ result' = r
           /\ self' = IF IsTable(r) THEN r ELSE self
           /\ call' = [op |-> "Table", rows |-> in.rows, column_names |-> in.column_names,
                       column_types |-> in.column_types, row_names |-> in.row_names]
    /\ UNCHANGED chain

Rename ==
    /\ Idle
    /\ \E a \in RenameArgs(self) :
        /\ result' = rename(self, a.column_names, a.row_names)
        /\ call' = [op |-> "rename", column_names |-> a.column_names, row_names |-> a.row_names]
    /\ UNCHANGED <<self, chain>>

Select ==
    /\ Idle
    /\ \E key \in NameKeys(self) :
        /\ result' = select(self, key)
        /\ call' = [op |-> "select", key |-> key]
    /\ UNCHANGED <<self, chain>>

Exclude ==
    /\ Idle
    /\ \E key \in NameKeys(self) :
        /\ result' = exclude(self, key)
        /\ call' = [op |-> "exclude", key |-> key]
    /\ UNCHANGED <<self, chain>>

Where ==
    /\ Idle
    /\ \E test \in Tests :
        /\ result' = where(self, test)
        /\ call' = [op |-> "where", test |-> test]
    /\ UNCHANGED <<self, chain>>

Find ==
    /\ Idle
    /\ \E test \in Tests :
        /\ result' = find(self, test)
        /\ call' = [op |-> "find", test |-> test]
    /\ UNCHANGED <<self, chain>>

(* A variant that sorts the receiver in place.                            *)
OrderByInPlace ==
    /\ Idle
    /\ \E key \in NameKeys(self) \cup KeyFunctions, reverse \in BOOLEAN, py \in PyVersions :
        /\ result' = order_by(self, key, reverse, py)
        /\ call' = [op |-> "order_by", key |-> key, reverse |-> reverse]
    /\ self' = IF IsTable(result') THEN result' ELSE self
    /\ UNCHANGED chain

OrderBy ==
    /\ Idle
    /\ \E key \in NameKeys(self) \cup KeyFunctions, reverse \in BOOLEAN, py \in PyVersions :
        /\ result' = order_by(self, key, reverse, py)
        /\ call' = [op |-> "order_by", key |-> key, reverse |-> reverse]
    /\ UNCHANGED <<self, chain>>

Limit ==
    /\ Idle
    /\ \E start_or_stop \in StartArgs, stop \in StopArgs, step \in StepArgs :
        /\ result' = limit(self, start_or_stop, stop, step)
        /\ call' = [op |-> "limit", start_or_stop |-> start_or_stop, stop |-> stop, step |-> step]
    /\ UNCHANGED <<self, chain>>

Distinct ==
    /\ Idle
    /\ \E key \in NameKeys(self) \cup KeyFunctions \cup {KeyNone} :
        /\ result' = distinct(self, key)
        /\ call' = [op |-> "distinct", key |-> key]
    /\ UNCHANGED <<self, chain>>

(* The caller goes on with the table the last call returned.              *)
Continue ==
    /\ IsTable(self)
    /\ IsTable(result)
    /\ call.op # "Table"
    /\ chain < MaxChain
    /\ self' = result
    /\ result' = NoTable
    /\ call' = NoCall
    /\ chain' = chain + 1

(* The caller lets go of what the last call returned.                     *)
Drop ==
    /\ result.kind # "none"
    /\ result' = NoTable
    /\ call' = NoCall
    /\ UNCHANGED <<self, chain>>

Next ==
    \/ Construct(DataInputs)
    \/ Rename
    \/ Select
    \/ Exclude
    \/ Where
    \/ Find
    \/ OrderBy
    \/ Limit
    \/ Distinct
    \/ Continue
    \/ Drop

Spec == Init /\ [][Next]_vars

(* Construction alone, over inputs of any shape.                          *)
NextConstruct ==
    \/ Construct(ShapeInputs)
    \/ Drop

SpecConstruct == Init /\ [][NextConstruct]_vars

(* ========================= properties ================================= *)
TransformOps == {"rename", "select", "exclude", "where", "find", "order_by", "limit", "distinct"}

NoDuplicates(s) == \A i, j \in 1..Len(s) : s[i] = s[j] => i = j

ShapeOK(t) ==
    /\ Len(t.column_names) = Len(t.column_types)
    /\ \A i \in 1..Len(t.rows) : Len(t.rows[i]) = Len(t.column_names)

(* The column names a key argument refers to all name columns.            *)
KeyExists(t, key) == \A n \in 1..Len(key.names) : key.names[n] \in Range(t.column_names)

(* The value of column name in a row, by the position of the column.      *)
Cell(t, row, name) == row[IndexOf(t.column_names, name)]

(* The value a key argument stands for in a row, as a tuple.              *)
KeyTuple(t, row, key) ==
    IF key.kind = "function" THEN <<RowFunction(key.f, row)>>
    ELSE IF key.kind = "none" THEN row
    ELSE [n \in 1..Len(key.names) |-> Cell(t, row, key.names[n])]

(* C1: a transformation operator leaves the receiver's rows, columns,     *)
(* column names, column types and row names as they were; its only effect *)
(* is what it returns, a Table (or an error), and for find a Row or None. *)
C1_ReceiverUnchanged ==
    [][call'.op \in TransformOps =>
        /\ self' = self
        /\ chain' = chain
        /\ result'.kind \in (IF call'.op = "find" THEN {"row", "notfound"}
                             ELSE {"table", "error"})]_vars

C1_Witness ==
    /\ chain = 1
    /\ call.op = "order_by"
    /\ IsTable(result)
    /\ result.rows # self.rows

(* C2: every Table has as many column types as column names, and every    *)
(* Row has that many values, after construction and after any operator.   *)
C2_Shape ==
    /\ IsTable(self) => ShapeOK(self)
    /\ IsTable(result) => ShapeOK(result)

C2_Witness ==
    /\ chain = 1
    /\ call.op \in {"select", "rename"}
    /\ IsTable(result)
    /\ Len(result.rows) > 1
    /\ Len(result.column_names) > 1
    /\ \E i \in 1..Len(result.rows) : None \in Range(result.rows[i])

(* C3: distinct(key) keeps exactly the rows whose key value differs from  *)
(* the key value of every earlier row, whatever form the key has.         *)
FirstOfKey(t, key) ==
    KeepAt(t.rows, {i \in 1..Len(t.rows) : \A j \in 1..(i - 1) :
                        KeyTuple(t, t.rows[j], key) # KeyTuple(t, t.rows[i], key)})

C3_DistinctFirstWins ==
    (/\ call.op = "distinct"
     /\ KeyExists(self, call.key)
     /\ call.key.kind = "names" => Len(call.key.names) > 0) =>
        /\ IsTable(result)
        /\ result.rows = FirstOfKey(self, call.key)

(* C4: limit(a, b, c) is rows[a:b:c] when b or c is given, also when b is *)
(* 0, and rows[:a] when only a is given.                                  *)
C4_LimitIsSlice ==
    call.op = "limit" =>
        /\ IsTable(result)
        /\ result.rows = IF call.stop # None \/ call.step # None
                         THEN Slice(self.rows, call.start_or_stop, call.stop, call.step)
                         ELSE Slice(self.rows, None, call.start_or_stop, None)

(* C5: order_by never fails on a null key value, and wherever two rows    *)
(* first differ in a key position where one of them is null, the row with *)
(* the null comes first (last with reverse=True).                         *)
C5_NullsBelow ==
    (call.op = "order_by" /\ KeyExists(self, call.key) /\ Len(self.rows) > 0) =>
        /\ IsTable(result)
        /\ \A i, j \in 1..Len(result.rows) :
            LET a == KeyTuple(self, result.rows[i], call.key)
                b == KeyTuple(self, result.rows[j], call.key)
                p == FirstDiff(a, b)
            IN (i < j /\ p > 0 /\ (a[p] = None) # (b[p] = None)) =>
                    IF call.reverse THEN b[p] = None ELSE a[p] = None

(* C6: order_by returns a stable sorted permutation of the rows, and with *)
(* pairwise distinct keys reverse=True gives the exact reverse.           *)
Reverse(s) == [i \in 1..Len(s) |-> s[Len(s) + 1 - i]]

C6_StableSort ==
    (call.op = "order_by" /\ IsTable(result) /\ Len(self.rows) > 0) =>
        LET n == Len(self.rows)
            k == [i \in 1..n |-> sort_key(self, i, call.key)]
            before(x, y) == IF call.reverse THEN Less(y, x) ELSE Less(x, y)
        IN /\ Len(result.rows) = n
           /\ \E p \in Permutations(1..n) :
                /\ \A i \in 1..n : result.rows[i] = self.rows[p[i]]
                /\ \A i, j \in 1..n : i < j =>
                    /\ ~before(k[p[j]], k[p[i]])
                    /\ ~before(k[p[i]], k[p[j]]) => p[i] < p[j]
           /\ (\A i, j \in 1..n : i # j => (Less(k[i], k[j]) \/ Less(k[j], k[i]))) =>
                result.rows = Reverse(order_by(self, call.key, ~call.reverse, 2).rows)

C6_Witness ==
    /\ call.op = "order_by"
    /\ call.reverse
    /\ IsTable(result)
    /\ result.rows # self.rows
    /\ \E i, j \in 1..Len(self.rows) :
        /\ i < j
        /\ self.rows[i] # self.rows[j]
        /\ ~Less(sort_key(self, i, call.key), sort_key(self, j, call.key))
        /\ ~Less(sort_key(self, j, call.key), sort_key(self, i, call.key))

C8_SelectExclude ==
    LET K == call.key.names
        others == KeepAt(self.column_names,
                        {i \in 1..Len(self.column_names) : self.column_names[i] \notin Range(K)})
    IN /\ (call.op = "select" /\ KeyExists(self, call.key) /\ NoDuplicates(K)) =>
            /\ IsTable(result)
            /\ result.column_names = K
            /\ result.column_types =
                    [i \in 1..Len(K) |-> self.column_types[IndexOf(self.column_names, K[i])]]
            /\ result.rows = [r \in 1..Len(self.rows) |->
                                [i \in 1..Len(K) |-> Cell(self, self.rows[r], K[i])]]
            /\ K = self.column_names => result.rows = self.rows
       /\ (call.op = "exclude" /\ KeyExists(self, call.key) /\ NoDuplicates(K)) =>
            /\ IsTable(result)
            /\ result.column_names = others

(* C9: construction fails, and leaves no Table, when a row is longer than *)
(* the resolved column count (the error names the first such row) or when *)
(* explicit column types differ in number from the names; otherwise it    *)
(* yields a valid Table, also for no rows and no columns.                 *)
ResolvedCount ==
    IF ~call.column_names.is_none /\ Len(call.column_names.v) > 0
    THEN Len(call.column_names.v)
    ELSE IF Len(call.rows) > 0 THEN Len(call.rows[1]) ELSE 0

TypesMismatch == ~call.column_types.is_none /\ Len(call.column_types.v) # ResolvedCount

LongRows == {i \in 1..Len(call.rows) : Len(call.rows[i]) > ResolvedCount}

(* A column named by row_names is among the column names.                 *)
RowNamesUsable ==
    call.row_names.kind = "name" =>
        \/ Len(call.rows) = 0
        \/ ~call.column_names.is_none /\ call.row_names.v[1] \in Range(call.column_names.v)

C9_ConstructionAllOrNothing ==
    call.op = "Table" =>
        /\ IsError(result) => self.kind = "none"
        /\ TypesMismatch => IsError(result) /\ result.what = "column_types"
        /\ (~TypesMismatch /\ LongRows # {}) =>
            /\ IsError(result)
            /\ result.what = "row"
            /\ result.row + 1 \in LongRows
            /\ \A i \in LongRows : result.row + 1 <= i
        /\ (~TypesMismatch /\ LongRows = {} /\ RowNamesUsable) =>
            /\ IsTable(result)
            /\ self = result
            /\ ShapeOK(result)
            /\ Len(result.column_names) = ResolvedCount
            /\ Len(result.rows) = Len(call.rows)
            /\ result.has_row_names => Len(result.row_names) = Len(result.rows)

C9_Witness ==
    /\ call.op = "Table"
    /\ ~TypesMismatch
    /\ IsError(result)
    /\ result.what = "row"
    /\ result.row = 1
    /\ self.kind = "none"

(* C10: the column names of a constructed Table have no duplicates; a     *)
(* name that collides with an earlier resolved name gets the first free   *)
(* suffix _2, _3, ..., any other name is kept, the number and order of    *)
(* the columns is that of the names supplied, and duplicates are no error.*)
WithSuffix(name, k) == name \o "_" \o ToString(k)

C10_UniqueColumnNames ==
    call.op = "Table" =>
        /\ IsTable(result) => NoDuplicates(result.column_names)
        /\ IsError(result) => (TypesMismatch \/ LongRows # {} \/ ~RowNamesUsable)
        /\ (IsTable(result) /\ ~call.column_names.is_none /\ Len(call.column_names.v) > 0) =>
            LET given == call.column_names.v
                final == result.column_names
            IN /\ Len(final) = Len(given)
               /\ \A i \in 1..Len(given) :
                    LET base == IF given[i] = "" THEN letter_name(i - 1) ELSE given[i]
                        earlier == {final[j] : j \in 1..(i - 1)}
                    IN IF base \notin earlier THEN final[i] = base
                       ELSE \E k \in 2..(i + 1) :
                            /\ final[i] = WithSuffix(base, k)
                            /\ final[i] \notin earlier
                            /\ \A m \in 2..(k - 1) : WithSuffix(base, m) \in earlier

C10_Witness ==
    /\ call.op = "Table"
    /\ IsTable(result)
    /\ call.column_names.v = <<"a", "a_2", "a">>
    /\ result.column_names = <<"a", "a_2", "a_3">>

(* C11: for a receiver with one row name per row, the row names of the    *)
(* table that where, order_by, limit or distinct returns are aligned with *)
(* its rows: as many names as rows, and position i holds a row of the     *)
(* receiver together with the name it had there.  order_by takes each     *)
(* position of the receiver once, where takes the positions that pass the *)
(* test and distinct the kept ones, in their order, and limit takes       *)
(* positions one step apart.  The same holds along a sequence of calls.   *)
RowOps == {"where", "order_by", "limit", "distinct"}

Aligned(t) == t.has_row_names => Len(t.row_names) = Len(t.rows)

(* from[i] is the position in t of row i of r and of its name.            *)
CarriedFrom(t, r, from) ==
    \A i \in 1..Len(r.rows) :
        /\ r.rows[i] = t.rows[from[i]]
        /\ r.row_names[i] = t.row_names[from[i]]

Increasing(from) == \A i, j \in 1..Len(from) : i < j => from[i] < from[j]

EvenlySpaced(from) ==
    \A i \in 1..(Len(from) - 2) : from[i + 1] - from[i] = from[i + 2] - from[i + 1]

PositionsOK(from) ==
    /\ NoDuplicates(from)
    /\ call.op = "order_by" => Range(from) = 1..Len(self.rows)
    /\ call.op = "where" =>
        /\ Increasing(from)
        /\ Range(from) = {i \in 1..Len(self.rows) : RowTest(call.test, self.rows[i])}
    /\ call.op = "distinct" => Increasing(from)
    /\ call.op = "limit" => EvenlySpaced(from)

C11_RowNamesAligned ==
    (call.op \in RowOps /\ self.has_row_names /\ Aligned(self) /\ IsTable(result)) =>
        /\ Aligned(result)
        /\ Len(result.rows) > 0 => result.has_row_names
        /\ result.has_row_names =>
            \E from \in [1..Len(result.rows) -> 1..Len(self.rows)] :
                CarriedFrom(self, result, from) /\ PositionsOK(from)

C11_Witness ==
    /\ chain = 1
    /\ call.op = "order_by"
    /\ self.has_row_names
    /\ IsTable(result)
    /\ result.has_row_names
    /\ Len(result.rows) = 2
    /\ result.row_names # self.row_names
    /\ result.rows # self.rows

(* C12: rename takes, for column names and for row names, a sequence that *)
(* replaces all names or a mapping from old to new names; a name in the   *)
(* mapping is replaced by its image and any other name stays, each in its *)
(* position.  The table returned has the rows, the columns, the column    *)
(* types and the cell values of the receiver in the same order, and the   *)
(* receiver's row names when no row names are passed; column names that   *)
(* collide are made unique as construction makes them.                    *)
ReplacesAll(arg, names) == arg.kind = "list" => Len(arg.v) = Len(names)

(* The names asked for: the sequence, or the images under the mapping.    *)
Wanted(arg, names) ==
    IF arg.kind = "list" THEN arg.v
    ELSE IF arg.kind = "dict"
    THEN [i \in 1..Len(names) |->
            IF \E m \in 1..Len(arg.v) : arg.v[m] = names[i]
            THEN arg.to[CHOOSE m \in 1..Len(arg.v) : arg.v[m] = names[i]]
            ELSE names[i]]
    ELSE names

(* final is given with every colliding name given its first free suffix.  *)
MadeUnique(given, final) ==
    /\ Len(final) = Len(given)
    /\ \A i \in 1..Len(given) :
        LET earlier == {final[j] : j \in 1..(i - 1)}
        IN IF given[i] \notin earlier THEN final[i] = given[i]
           ELSE \E k \in 2..(i + 1) :
                /\ final[i] = WithSuffix(given[i], k)
                /\ final[i] \notin earlier
                /\ \A m \in 2..(k - 1) : WithSuffix(given[i], m) \in earlier

C12_Rename ==
    (/\ call.op = "rename"
     /\ ReplacesAll(call.column_names, self.column_names)
     /\ ReplacesAll(call.row_names, self.rows)) =>
        /\ IsTable(result)
        /\ result.rows = self.rows
        /\ result.column_types = self.column_types
        /\ MadeUnique(Wanted(call.column_names, self.column_names), result.column_names)
        /\ result.row_names = Wanted(call.row_names, self.row_names)
        /\ result.has_row_names = (Len(result.row_names) > 0)
====
